---- MODULE Spec2Model ----
(***************************************************************************)
(* Gift-card ledger of giftcard-platform-api: gift cards, their            *)
(* transactions and the commissions derived from recharges, as written by  *)
(* CreateGiftCardService, RechargeGiftCardService and UseGiftCardService.  *)
(*                                                                         *)
(* Every `await` of a service is a point where another request can run, so *)
(* each service call is a sequence of steps: the read of the card          *)
(* (validateGiftCard, with the synchronous checks that follow it), the     *)
(* insert of the transaction row, the update of the card row and, for a    *)
(* recharge, the insert of the commission row.  The services open no       *)
(* database transaction and take no lock, so the rows are written one by   *)
(* one and a rejected await leaves the earlier rows in place.              *)
(*                                                                         *)
(* Money is counted in cents (hundredths of the currency unit); a          *)
(* commission amount is kept in hundredths of a cent, so that              *)
(* amount * (rate / 100) is the number the service computes.               *)
(*                                                                         *)
(* A commission is settled by CommissionChargeJob and by the requests to   *)
(* POST /commissions/:id/charge, which create a charge at the payment      *)
(* gateway through CreateCommissionChargeService, and by ProcessWebhookJob,*)
(* which applies the gateway's webhooks through ProcessWebhookService.     *)
(* Their awaits are steps as well, each with the values the run read       *)
(* before: the read of the commission, the gateway calls, the update of    *)
(* the commission, the catch block, the notification, the update of the    *)
(* webhook row; each await can reject.                                     *)
(*                                                                         *)
(* Spec is the ledger of cards already created, SpecCreate their creation, *)
(* SpecRecharge the recharges under a changing commission rate, SpecCharge *)
(* and SpecRequest the charge jobs and requests of one commission,         *)
(* SpecWebhook, SpecReceive and SpecEvent the webhooks of its charge,      *)
(* SpecSettle jobs and webhooks together.                                  *)
(***************************************************************************)
EXTENDS Integers, Sequences, FiniteSets, Bags, TLC

\* Bounds of the model.
MaxCards == 1
MaxCreated == 2
MaxCalls == 2
\* Charge jobs the queue holds, charges the gateway accepts, webhooks it sends
\* and executions of webhook jobs under way.
MaxChargeJobs == 2
MaxChargeRequests == 1
MaxCharges == 2
MaxWebhooks == 2
MaxWebhookRuns == 2

\* franchisees.commission_rate DEFAULT 5.0
DefaultCommissionRate == 5

\* defaultJobOptions.attempts
MaxAttempts == 3

\* Characters of a sha256 digest in hex.
DigestLength == 64

VARIABLES
    giftCards,      \* gift_cards rows, id = index
    transactions,   \* transactions rows, id = index = creation order
    commissions,    \* commissions rows, id = index
    calls,          \* bag of the recharge/use requests made, with their position
    now,            \* the clock validUntil is compared with
    commissionRate, \* franchisees.commission_rate of the cards' franchisee
    chargeJobs,     \* bag of the CommissionCharge jobs queued, running or failed
    chargeRequests, \* bag of the requests to POST /commissions/:id/charge under way
    charges,        \* charges created at the gateway, id = index
    webhooks,       \* payment_webhooks rows, id = index
    webhookJobs,    \* bag of the executions of ProcessWebhook jobs under way
    webhookReply,   \* the last request to POST /webhooks/asaas and its answer
    creations,      \* bag of the runs of CreateGiftCardService under way
    creation,       \* the last run of CreateGiftCardService ended, its result
    batch           \* the last request to POST /gift-cards/batch and its count

vars == <<giftCards, transactions, commissions, calls, now,
          commissionRate, chargeJobs, chargeRequests, charges, webhooks,
          webhookJobs, webhookReply, creations, creation, batch>>

\* What only the creation of gift cards writes.
creating == <<creations, creation, batch>>

\* What the gift-card services never write.
settlement ==
    <<commissionRate, chargeJobs, chargeRequests, charges, webhooks,
      webhookJobs, webhookReply>>

\* Amounts of a recharge or a use, in cents: below, equal to and above a
\* balance.
Amounts == {100, 200}
\* Amounts of a recharge with cents in them as well: 2.50.
RechargeAmounts == Amounts \cup {250}
\* Initial values of the cards created, in cents.
InitialValues == {200}
\* validUntil is optional; a card without one never expires.
NoExpiry == 0
\* Instants of the clock: a validUntil is either still ahead or reached.
Times == {0, 1}
\* Commission rates a franchisee is configured with (percent).
Rates == {DefaultCommissionRate, 10}

CardIds == 1..Len(giftCards)
Calls == BagToSet(calls)

\* One request moves from `call` to `next`.
Step(call, next) == (calls (-) SetToBag({call})) (+) SetToBag({next})

\* One record of a bag moves from `from` to `to`.
Move(bag, from, to) == (bag (-) SetToBag({from})) (+) SetToBag({to})

\* A run has returned or thrown: the run and its locals are gone.
Leave(bag, from) == bag (-) SetToBag({from})

\* ------------------------------------------------------------------ errors

NoError == [code |-> "", message |-> "", status |-> 0]

\* BaseException.toJSON: {code, message, status}
toJSON(code, message, status) ==
    [code |-> code, message |-> message, status |-> status]

\* new BadRequestException(message): status 400, code E_BAD_REQUEST
BadRequestException(message) == toJSON("E_BAD_REQUEST", message, 400)

\* A rejected await of a database write.
DatabaseError == toJSON("E_DATABASE", "write failed", 500)

\* ------------------------------------------------------------- gift cards

\* The card's validUntil, when set, has been reached by the clock.
Expired(card) == card.validUntil # NoExpiry /\ now >= card.validUntil

\* validateGiftCard: the card must be active and not past validUntil.
validateGiftCard(card) ==
    IF card.status # "active"
    THEN toJSON("INVALID_STATUS", "Gift card is not active", 422)
    ELSE IF Expired(card)
    THEN toJSON("EXPIRED_CARD", "Gift card is expired", 422)
    ELSE NoError

\* customAlphabet('ABCDEFGHIJKLMNOPQRSTUVWXYZ0123456789', 16): an id is 16
\* characters of the alphabet, kept as its four groups of four; the n-th of
\* the ids nanoid() can return.
Groups == <<"AAAA", "AAAB", "AAAC", "AAAD">>
Nanoid(n) == <<Groups[1], Groups[1], Groups[1], Groups[n]>>

\* The ids nanoid() returns while the alphabet is too small for the cards.
Nanoids == {Nanoid(n) : n \in 1..2}

\* `GC-${id.slice(0,4)}-${id.slice(4,8)}-${id.slice(8,12)}-${id.slice(12,16)}`
\* as the parts the dashes separate.
generateUniqueCode(id) == <<"GC", id[1], id[2], id[3], id[4]>>

\* gift_cards.code is UNIQUE: the insert of a second row with a code is
\* rejected by the database.
UniqueViolation == toJSON("E_DATABASE", "duplicate key: code", 500)

\* GiftCardValidator.createSchema, which the request passes before the
\* service runs: initialValue number().min(1).max(10000), validUntil
\* date().after('today').optional().
createSchema(initialValue, validUntil) ==
    /\ initialValue >= 100 /\ initialValue <= 1000000
    /\ validUntil = NoExpiry \/ validUntil > now

\* Relationship Mismatch: Returns 422 when establishment doesn't belong to
\* franchisee
RelationshipMismatch == toJSON("E_VALIDATION", "Relationship Mismatch", 422)

\* QRCode.toBuffer rejects.
QrCodeError == [code |-> "Error", message |-> "QRCode.toBuffer", status |-> 0]

\* What a run of CreateGiftCardService ended with: the id nanoid() returned,
\* when it was called, and the error thrown.
NoId == <<>>
NoCreation == [id |-> NoId, attempts |-> 0, error |-> NoError]
Created(id) == [id |-> id, attempts |-> 1, error |-> NoError]
NotCreated(id, error) ==
    [id |-> id, attempts |-> IF id = NoId THEN 0 ELSE 1, error |-> error]

CodesInUse == {giftCards[c].code : c \in DOMAIN giftCards}

Creations == BagToSet(creations)

\* The runs of execute an establishment of the franchisee, or one of another
\* franchisee, can ask for.
Relationships == {"own", "foreign"}

\* A run of CreateGiftCardService.execute(data) at its first await, alone or
\* as one of the creations of a batch.
NewCreation(initialValue, validUntil, relationship, inBatch) ==
    [initialValue |-> initialValue, validUntil |-> validUntil,
     relationship |-> relationship, pc |-> "validate", id |-> NoId,
     inBatch |-> inBatch]

\* No request to /gift-cards/batch was made.
NoBatch == [quantity |-> 0, createdCount |-> 0, pending |-> 0]

\* The batch after one of its creations has ended, with a card or without.
Counted(r, created) ==
    IF r.inBatch
    THEN [batch EXCEPT !.createdCount = @ + (IF created THEN 1 ELSE 0),
                       !.pending = @ - 1]
    ELSE batch

\* POST /gift-cards: execute is called with the data of the request.  Data
\* that GiftCardValidator would reject is data as well: the service does
\* not look at initialValue or validUntil.
CreateGiftCard(initialValue, validUntil, relationship) ==
    /\ Len(giftCards) + BagCardinality(creations) < MaxCreated
    /\ creations' = creations (+) SetToBag({
          NewCreation(initialValue, validUntil, relationship, FALSE)})
    /\ UNCHANGED <<settlement, creation, batch>>
    /\ UNCHANGED <<giftCards, transactions, commissions, calls, now>>

\* POST /gift-cards/batch: `quantity` creations, each on its own; the answer
\* counts those that ended with a card (createdCount).
CreateBatch(quantity, initialValue, validUntil, relationship) ==
    /\ batch.pending = 0
    /\ Len(giftCards) + BagCardinality(creations) + quantity <= MaxCreated
    /\ batch' = [quantity |-> quantity, createdCount |-> 0,
                 pending |-> quantity]
    /\ creations' = creations (+)
          [r \in {NewCreation(initialValue, validUntil, relationship, TRUE)}
              |-> quantity]
    /\ UNCHANGED <<settlement, creation>>
    /\ UNCHANGED <<giftCards, transactions, commissions, calls, now>>

\* validateFranchiseeEstablishment resolves and generateUniqueCode() takes
\* the id nanoid() returns; or it rejects with Relationship Mismatch, before
\* nanoid() is called, and execute throws.
CreateValidate(r, id) ==
    /\ r.pc = "validate"
    /\ IF r.relationship = "own"
       THEN /\ creations' = Move(creations, r,
                  [r EXCEPT !.pc = "qrCode", !.id = id])
            /\ UNCHANGED <<creation, batch>>
       ELSE /\ creations' = Leave(creations, r)
            /\ creation' = NotCreated(NoId, RelationshipMismatch)
            /\ batch' = Counted(r, FALSE)
    /\ UNCHANGED settlement
    /\ UNCHANGED <<giftCards, transactions, commissions, calls, now>>

\* generateQrCode(code) resolves.
CreateQrCode(r) ==
    /\ r.pc = "qrCode"
    /\ creations' = Move(creations, r, [r EXCEPT !.pc = "create"])
    /\ UNCHANGED <<settlement, creation, batch>>
    /\ UNCHANGED <<giftCards, transactions, commissions, calls, now>>

\* repository.create({...data, code, qrCode, currentBalance:
\* data.initialValue, status: 'active'})
CreatedCard(id, initialValue, validUntil) ==
    [code |-> generateUniqueCode(id),
     initialValue |-> initialValue,
     currentBalance |-> initialValue,
     status |-> "active",
     validUntil |-> validUntil]

\* repository.create resolves and execute returns the card; or the code is
\* in use, the insert is rejected by the database and execute throws: no
\* card is created.
CreateInsert(r) ==
    /\ r.pc = "create"
    /\ creations' = Leave(creations, r)
    /\ IF generateUniqueCode(r.id) \in CodesInUse
       THEN /\ creation' = NotCreated(r.id, UniqueViolation)
            /\ giftCards' = giftCards
            /\ batch' = Counted(r, FALSE)
       ELSE /\ creation' = Created(r.id)
            /\ giftCards' = Append(giftCards,
                  CreatedCard(r.id, r.initialValue, r.validUntil))
            /\ batch' = Counted(r, TRUE)
    /\ UNCHANGED settlement
    /\ UNCHANGED <<transactions, commissions, calls, now>>

\* The error of an await of execute that rejects for a reason of its own.
Rejection(pc) == IF pc = "qrCode" THEN QrCodeError ELSE DatabaseError

\* An await of execute rejects (the query of the validation, the QR code,
\* the insert for another reason than the code): execute has no catch, the
\* error goes to the caller and no card is created.
CreateFails(r) ==
    /\ creations' = Leave(creations, r)
    /\ creation' = NotCreated(r.id, Rejection(r.pc))
    /\ batch' = Counted(r, FALSE)
    /\ UNCHANGED settlement
    /\ UNCHANGED <<giftCards, transactions, commissions, calls, now>>

\* active --> cancelled : Manual cancellation
CancelGiftCard(c) ==
    /\ giftCards[c].status = "active"
    /\ giftCards' = [giftCards EXCEPT ![c].status = "cancelled"]
    /\ UNCHANGED <<settlement, creating>>
    /\ UNCHANGED <<transactions, commissions, calls, now>>

\* active --> expired : Expiration date reached
ExpireGiftCard(c) ==
    /\ giftCards[c].status = "active"
    /\ Expired(giftCards[c])
    /\ giftCards' = [giftCards EXCEPT ![c].status = "expired"]
    /\ UNCHANGED <<settlement, creating>>
    /\ UNCHANGED <<transactions, commissions, calls, now>>

Tick ==
    /\ now + 1 \in Times
    /\ now' = now + 1
    /\ UNCHANGED <<settlement, creating>>
    /\ UNCHANGED <<creating, giftCards, transactions, commissions, calls>>

\* ------------------------------------------------------------------ calls

\* A request: pc is the await it stands at ("rejected" when its checks threw
\* before any write), error the exception that ended it.  The card is loaded
\* with its franchisee, so the call holds the commission rate of that moment.
NewCall(op, c, amount, balanceBefore, err) ==
    [op |-> op, giftCardId |-> c, amount |-> amount,
     pc |-> IF err = NoError THEN "transaction" ELSE "rejected",
     balanceBefore |-> balanceBefore, transactionId |-> 0, error |-> err,
     rate |-> commissionRate]

\* transactionService.create
NewTransaction(c, type, amount, balanceBefore, balanceAfter) ==
    [giftCardId |-> c, type |-> type, amount |-> amount,
     balanceBefore |-> balanceBefore, balanceAfter |-> balanceAfter]

\* ---------------------------------------------------------------- recharge

\* Variant: the amount is not added.
RechargeBalanceAfterUnchanged(balanceBefore, amount) == balanceBefore

\* const balanceAfter = balanceBefore + data.amount
RechargeBalanceAfter(balanceBefore, amount) == balanceBefore + amount

\* const giftCard = await this.validateGiftCard(...); balanceBefore is read
\* from this snapshot before the next await.  A rejected request ends here.
RechargeValidate(c, amount) ==
    /\ BagCardinality(calls) < MaxCalls
    /\ calls' = calls (+) SetToBag({NewCall("recharge", c, amount,
                                           giftCards[c].currentBalance,
                                           validateGiftCard(giftCards[c]))})
    /\ UNCHANGED <<settlement, creating>>
    /\ UNCHANGED <<creating, giftCards, transactions, commissions, now>>

RechargeCreateTransaction(p) ==
    /\ p.op = "recharge"
    /\ p.pc = "transaction"
    /\ p.error = NoError
    /\ transactions' = Append(transactions,
          NewTransaction(p.giftCardId, "recharge", p.amount,
                         p.balanceBefore,
                         RechargeBalanceAfter(p.balanceBefore, p.amount)))
    /\ calls' = Step(p, [p EXCEPT !.pc = "update",
                              !.transactionId = Len(transactions) + 1])
    /\ UNCHANGED <<settlement, creating>>
    /\ UNCHANGED <<creating, giftCards, commissions, now>>

\* repository.update(giftCard.id, {currentBalance: balanceAfter})
RechargeUpdate(p) ==
    /\ p.op = "recharge"
    /\ p.pc = "update"
    /\ p.error = NoError
    /\ giftCards' = [giftCards EXCEPT ![p.giftCardId].currentBalance =
          RechargeBalanceAfter(p.balanceBefore, p.amount)]
    /\ calls' = Step(p, [p EXCEPT !.pc = "commission"])
    /\ UNCHANGED <<settlement, creating>>
    /\ UNCHANGED <<transactions, commissions, now>>

\* data.amount * (commissionRate / 100), in hundredths of a cent
CommissionAmount(amount, rate) == amount * rate

\* Variant: the schema default instead of the franchisee's rate.
CommissionRateDefault(giftCard) == DefaultCommissionRate

\* giftCard.franchisee.commissionRate, of the card the call loaded
CommissionRate(giftCard) == giftCard.rate

\* A column that was never written.
Null == 0 - 1
NoPaymentMethod == "null"

\* commissionService.create({transactionId, amount, rate}): a new row is
\* pending, with no charge, no payment method and no paidAt.
NewCommission(transactionId, amount, rate) ==
    [transactionId |-> transactionId, amount |-> amount, rate |-> rate,
     status |-> "pending", asaasChargeId |-> Null,
     paymentMethod |-> NoPaymentMethod, paidAt |-> Null]

\* commissionService.create; the call then returns.
RechargeCreateCommission(p) ==
    /\ p.op = "recharge"
    /\ p.pc = "commission"
    /\ p.error = NoError
    /\ commissions' = Append(commissions,
          NewCommission(p.transactionId,
                        CommissionAmount(p.amount, CommissionRate(p)),
                        CommissionRate(p)))
    /\ calls' = Step(p, [p EXCEPT !.pc = "done"])
    /\ UNCHANGED <<settlement, creating>>
    /\ UNCHANGED <<creating, giftCards, transactions, now>>

\* PUT franchisees/:id with commissionRate: only the franchisee row changes.
UpdateFranchisee(rate) ==
    /\ rate # commissionRate
    /\ commissionRate' = rate
    /\ UNCHANGED <<creating, giftCards, transactions, commissions, calls, now>>
    /\ UNCHANGED <<webhookReply, chargeJobs, chargeRequests, charges, webhooks,
                   webhookJobs>>

\* --------------------------------------------------------------------- use

\* const balanceAfter = balanceBefore - data.amount
UseBalanceAfter(balanceBefore, amount) == balanceBefore - amount

\* Variant: no balance check.
UseErrorUnchecked(card, amount) == validateGiftCard(card)

\* validateGiftCard, then `if (giftCard.currentBalance < data.amount) throw`.
UseError(card, amount) ==
    LET err == validateGiftCard(card) IN
    IF err # NoError THEN err
    ELSE IF card.currentBalance < amount
    THEN BadRequestException("Insufficient balance")
    ELSE NoError

UseValidate(c, amount) ==
    /\ BagCardinality(calls) < MaxCalls
    /\ calls' = calls (+) SetToBag({NewCall("use", c, amount,
                                           giftCards[c].currentBalance,
                                           UseError(giftCards[c], amount))})
    /\ UNCHANGED <<settlement, creating>>
    /\ UNCHANGED <<creating, giftCards, transactions, commissions, now>>

UseCreateTransaction(p) ==
    /\ p.op = "use"
    /\ p.pc = "transaction"
    /\ p.error = NoError
    /\ transactions' = Append(transactions,
          NewTransaction(p.giftCardId, "usage", p.amount,
                         p.balanceBefore,
                         UseBalanceAfter(p.balanceBefore, p.amount)))
    /\ calls' = Step(p, [p EXCEPT !.pc = "update",
                              !.transactionId = Len(transactions) + 1])
    /\ UNCHANGED <<settlement, creating>>
    /\ UNCHANGED <<creating, giftCards, commissions, now>>

\* Variant: marks the card used one currency unit early.
MarkUsedEarly(balanceAfter) == balanceAfter <= 100

\* if (balanceAfter === 0) updates.status = 'used'
MarkUsed(balanceAfter) == balanceAfter = 0

\* repository.update(giftCard.id, updates); the call then returns.
UseUpdate(p) ==
    /\ p.op = "use"
    /\ p.pc = "update"
    /\ p.error = NoError
    /\ LET c == p.giftCardId
           balanceAfter == UseBalanceAfter(p.balanceBefore, p.amount)
       IN giftCards' = [giftCards EXCEPT
                          ![c].currentBalance = balanceAfter,
                          ![c].status = IF MarkUsed(balanceAfter)
                                        THEN "used" ELSE @]
    /\ calls' = Step(p, [p EXCEPT !.pc = "done"])
    /\ UNCHANGED <<settlement, creating>>
    /\ UNCHANGED <<transactions, commissions, now>>

\* An awaited write rejects: the exception leaves execute, no later step runs
\* and nothing written before is undone.
WriteFails(p) ==
    /\ p.pc \in {"transaction", "update", "commission"}
    /\ p.error = NoError
    /\ calls' = Step(p, [p EXCEPT !.error = DatabaseError])
    /\ UNCHANGED <<settlement, creating>>
    /\ UNCHANGED <<creating, giftCards, transactions, commissions, now>>

\* -------------------------------------------------------------- settlement

CommissionIds == DOMAIN commissions
ChargeIds == DOMAIN charges
WebhookIds == DOMAIN webhooks
ChargeJobs == BagToSet(chargeJobs)
ChargeRequests == BagToSet(chargeRequests)
WebhookJobs == BagToSet(webhookJobs)

PaymentMethods == {"pix", "ticket"}

\* The kinds the switch of ProcessWebhookService names, and one it does not.
SuccessEvents == {"PAYMENT_CONFIRMED", "PAYMENT_RECEIVED"}
CancellationEvents == {"PAYMENT_DELETED", "PAYMENT_REFUNDED"}
Events ==
    SuccessEvents \cup {"PAYMENT_OVERDUE"} \cup CancellationEvents
        \cup {"PAYMENT_CREATED"}

\* The dates of a payment the gateway has confirmed: confirmedDate, or only
\* clientPaymentDate.
ConfirmedDates ==
    {[confirmedDate |-> 1, clientPaymentDate |-> Null],
     [confirmedDate |-> Null, clientPaymentDate |-> 2]}
NoDates == [confirmedDate |-> Null, clientPaymentDate |-> Null]

\* AsaasApiError: the gateway rejected the request or did not answer.
AsaasApiError == toJSON("E_ASAAS_API", "Payment Processing Failed", 422)

\* The names an object literal inherits from Object.prototype: looked up in
\* `mapping` they give a function or an object, which is truthy.
ObjectPrototype ==
    {"constructor", "toString", "toLocaleString", "valueOf", "hasOwnProperty",
     "isPrototypeOf", "propertyIsEnumerable", "__proto__",
     "__defineGetter__", "__defineSetter__", "__lookupGetter__",
     "__lookupSetter__"}

\* What Object.prototype holds under `name`.
Inherited(name) == "Object.prototype." \o name

\* mapping[method] || 'PIX'
mapPaymentMethod(method) ==
    CASE method = "ticket" -> "BOLETO"
      [] method = "pix" -> "PIX"
      [] method = "credit_card" -> "CREDIT_CARD"
      [] method \in ObjectPrototype -> Inherited(method)
      [] OTHER -> "PIX"

\* A read the database rejects.
QueryError == toJSON("E_DATABASE", "query failed", 500)

\* new Error(`Commission ${commissionId} not found`)
CommissionNotFound(commissionId) ==
    [code |-> "Error",
     message |-> "Commission " \o ToString(commissionId) \o " not found",
     status |-> 0]

\* No commission was loaded (null).
NoCommission == [id |-> Null, amount |-> Null, status |-> "null"]

\* commissionRepository.findWithRelations(commissionId): the commission as
\* it is read (its id, amount and status; CreateCommissionChargeService
\* uses id and amount); null when there is no row.
findWithRelations(commissionId) ==
    IF commissionId \in CommissionIds
    THEN [id |-> commissionId,
          amount |-> commissions[commissionId].amount,
          status |-> commissions[commissionId].status]
    ELSE NoCommission

\* An id no commission has.
MissingCommissionId == Len(commissions) + 1

\* job.data of a CommissionCharge job, queued.
NewChargeJob(commissionId, paymentMethod) ==
    [commissionId |-> commissionId, paymentMethod |-> paymentMethod,
     pc |-> "queued", attemptsMade |-> 0, commission |-> NoCommission,
     chargeId |-> Null, error |-> NoError]

\* API->>Q: Queue Commission Job.  A CommissionCharge job is queued with a
\* commission id and a payment method.
QueueCommissionJob(k, paymentMethod) ==
    /\ BagCardinality(chargeJobs) < MaxChargeJobs
    /\ chargeJobs' = chargeJobs (+) SetToBag({NewChargeJob(k, paymentMethod)})
    /\ UNCHANGED <<creating, giftCards, transactions, commissions, calls, now>>
    /\ UNCHANGED <<chargeRequests, webhookReply, commissionRate, charges,
                   webhooks, webhookJobs>>

\* chargeData of CreateCommissionChargeService.execute, built from the
\* commission the caller loaded.
ChargeData(commission, paymentMethod) ==
    [billingType |-> mapPaymentMethod(paymentMethod),
     value |-> commission.amount,
     externalReference |-> commission.id]

\* A worker runs handle and findWithRelations resolves: the commission is
\* kept for chargeService.execute, or there is none and
\* `throw new Error('Commission ... not found')` goes to the catch block.
ChargeJobLoad(j) ==
    /\ j.pc = "queued"
    /\ LET commission == findWithRelations(j.commissionId) IN
       chargeJobs' = Move(chargeJobs, j,
          IF commission = NoCommission
          THEN [j EXCEPT !.pc = "catch", !.attemptsMade = @ + 1,
                         !.error = CommissionNotFound(j.commissionId)]
          ELSE [j EXCEPT !.pc = "customer", !.attemptsMade = @ + 1,
                         !.commission = commission])
    /\ UNCHANGED <<creating, giftCards, transactions, commissions, calls, now>>
    /\ UNCHANGED <<chargeRequests, webhookReply, commissionRate, charges,
                   webhooks, webhookJobs>>

\* A worker runs handle and findWithRelations rejects: control goes to the
\* catch block with the database's error.
ChargeJobLoadFails(j) ==
    /\ j.pc = "queued"
    /\ chargeJobs' = Move(chargeJobs, j,
          [j EXCEPT !.pc = "catch", !.attemptsMade = @ + 1,
                    !.error = QueryError])
    /\ UNCHANGED <<creating, giftCards, transactions, commissions, calls, now>>
    /\ UNCHANGED <<chargeRequests, webhookReply, commissionRate, charges,
                   webhooks, webhookJobs>>

\* customerService.ensureCustomer(commission.establishment) resolves.
ChargeJobEnsureCustomer(j) ==
    /\ j.pc = "customer"
    /\ chargeJobs' = Move(chargeJobs, j, [j EXCEPT !.pc = "charge"])
    /\ UNCHANGED <<creating, giftCards, transactions, commissions, calls, now>>
    /\ UNCHANGED <<chargeRequests, webhookReply, commissionRate, charges,
                   webhooks, webhookJobs>>

\* asaasClient.createCharge(chargeData) resolves with a new charge.
ChargeJobCreateCharge(j) ==
    /\ j.pc = "charge"
    /\ Len(charges) < MaxCharges
    /\ charges' = Append(charges, ChargeData(j.commission, j.paymentMethod))
    /\ chargeJobs' = Move(chargeJobs, j,
          [j EXCEPT !.pc = "update", !.chargeId = Len(charges) + 1])
    /\ UNCHANGED <<creating, giftCards, transactions, commissions, calls, now>>
    /\ UNCHANGED <<chargeRequests, webhookReply, commissionRate, webhooks,
                   webhookJobs>>

\* The gateway rejects (ensureCustomer or createCharge throws): control
\* goes to the catch block.
ChargeJobGatewayFails(j) ==
    /\ j.pc \in {"customer", "charge"}
    /\ chargeJobs' = Move(chargeJobs, j,
          [j EXCEPT !.pc = "catch", !.error = AsaasApiError])
    /\ UNCHANGED <<creating, giftCards, transactions, commissions, calls, now>>
    /\ UNCHANGED <<chargeRequests, webhookReply, commissionRate, charges,
                   webhooks, webhookJobs>>

\* Variant: the charge reference is not stored.
ChargedCommissionWithoutReference(commission, chargeId, paymentMethod) ==
    [commission EXCEPT !.paymentMethod = paymentMethod, !.status = "charged"]

\* commissionRepository.update(commission.id,
\*     {asaasChargeId: charge.id, paymentMethod, status: 'charged'})
ChargedCommission(commission, chargeId, paymentMethod) ==
    [commission EXCEPT !.asaasChargeId = chargeId,
                       !.paymentMethod = paymentMethod,
                       !.status = "charged"]

\* The commission is updated and handle returns: the job is complete.
ChargeJobUpdate(j) ==
    /\ j.pc = "update"
    /\ commissions' = [commissions EXCEPT ![j.commission.id] =
          ChargedCommission(@, j.chargeId, j.paymentMethod)]
    /\ chargeJobs' = Leave(chargeJobs, j)
    /\ UNCHANGED <<creating, giftCards, transactions, calls, now>>
    /\ UNCHANGED <<chargeRequests, webhookReply, commissionRate, charges,
                   webhooks, webhookJobs>>

\* The update after createCharge rejects: control goes to the catch block
\* with the charge already created at the gateway.
ChargeJobUpdateFails(j) ==
    /\ j.pc = "update"
    /\ chargeJobs' = Move(chargeJobs, j,
          [j EXCEPT !.pc = "catch", !.error = DatabaseError])
    /\ UNCHANGED <<creating, giftCards, transactions, commissions, calls, now>>
    /\ UNCHANGED <<chargeRequests, webhookReply, commissionRate, charges,
                   webhooks, webhookJobs>>

\* Variant: the failed commission also loses its charge and payment method.
FailedCommissionCleared(commission) ==
    [commission EXCEPT !.status = "failed", !.asaasChargeId = Null,
                       !.paymentMethod = NoPaymentMethod]

\* commissionRepository.update(commissionId, {status: 'failed'})
FailedCommission(commission) == [commission EXCEPT !.status = "failed"]

\* throw error // Let queue handle retry
Thrown(error) == error

\* This attempt of the job has ended with `error`; its locals are gone.
FailedAttempt(j, error) ==
    [j EXCEPT !.pc = "failed", !.commission = NoCommission,
              !.chargeId = Null, !.error = error]

\* catch (error): the commission, when there is one, is set to failed and
\* the error rethrown, so this attempt of the job has failed.
ChargeJobCatch(j) ==
    /\ j.pc = "catch"
    /\ commissions' =
          IF j.commissionId \in CommissionIds
          THEN [commissions EXCEPT ![j.commissionId] = FailedCommission(@)]
          ELSE commissions
    /\ chargeJobs' = Move(chargeJobs, j, FailedAttempt(j, Thrown(j.error)))
    /\ UNCHANGED <<creating, giftCards, transactions, calls, now>>
    /\ UNCHANGED <<chargeRequests, webhookReply, commissionRate, charges,
                   webhooks, webhookJobs>>

\* The update of the catch block rejects: the commission is left as it was
\* and handle rejects with the error of the update, `throw error` not
\* reached.
ChargeJobCatchFails(j) ==
    /\ j.pc = "catch"
    /\ chargeJobs' = Move(chargeJobs, j, FailedAttempt(j, DatabaseError))
    /\ UNCHANGED <<creating, giftCards, transactions, commissions, calls, now>>
    /\ UNCHANGED <<chargeRequests, webhookReply, commissionRate, charges,
                   webhooks, webhookJobs>>

\* The queue runs a failed job again while attempts are left.
ChargeJobRetry(j) ==
    /\ j.pc = "failed"
    /\ j.error # NoError
    /\ j.attemptsMade < MaxAttempts
    /\ chargeJobs' = Move(chargeJobs, j,
          [j EXCEPT !.pc = "queued", !.error = NoError])
    /\ UNCHANGED <<creating, giftCards, transactions, commissions, calls, now>>
    /\ UNCHANGED <<chargeRequests, webhookReply, commissionRate, charges,
                   webhooks, webhookJobs>>

\* POST /commissions/:id/charge: the controller loads the commission and
\* runs CreateCommissionChargeService.execute for it; the request is
\* answered when execute has returned.
NewChargeRequest(commission, paymentMethod) ==
    [commission |-> commission, paymentMethod |-> paymentMethod,
     pc |-> "customer", chargeId |-> Null]

RequestCharge(k, paymentMethod) ==
    /\ k \in CommissionIds
    /\ BagCardinality(chargeRequests) < MaxChargeRequests
    /\ chargeRequests' = chargeRequests
          (+) SetToBag({NewChargeRequest(findWithRelations(k), paymentMethod)})
    /\ UNCHANGED <<creating, giftCards, transactions, commissions, calls, now>>
    /\ UNCHANGED <<chargeJobs, webhookReply, commissionRate, charges,
                   webhooks, webhookJobs>>

\* customerService.ensureCustomer(commission.establishment) resolves.
RequestEnsureCustomer(r) ==
    /\ r.pc = "customer"
    /\ chargeRequests' = Move(chargeRequests, r, [r EXCEPT !.pc = "charge"])
    /\ UNCHANGED <<creating, giftCards, transactions, commissions, calls, now>>
    /\ UNCHANGED <<chargeJobs, webhookReply, commissionRate, charges,
                   webhooks, webhookJobs>>

\* asaasClient.createCharge(chargeData) resolves with a new charge.
RequestCreateCharge(r) ==
    /\ r.pc = "charge"
    /\ Len(charges) < MaxCharges
    /\ charges' = Append(charges, ChargeData(r.commission, r.paymentMethod))
    /\ chargeRequests' = Move(chargeRequests, r,
          [r EXCEPT !.pc = "update", !.chargeId = Len(charges) + 1])
    /\ UNCHANGED <<creating, giftCards, transactions, commissions, calls, now>>
    /\ UNCHANGED <<chargeJobs, webhookReply, commissionRate, webhooks,
                   webhookJobs>>

\* The commission is updated, execute returns the charge and the request is
\* answered 200 OK with the commission and the payment.
RequestUpdate(r) ==
    /\ r.pc = "update"
    /\ commissions' = [commissions EXCEPT ![r.commission.id] =
          ChargedCommission(@, r.chargeId, r.paymentMethod)]
    /\ chargeRequests' = Leave(chargeRequests, r)
    /\ UNCHANGED <<creating, giftCards, transactions, calls, now>>
    /\ UNCHANGED <<chargeJobs, webhookReply, commissionRate, charges,
                   webhooks, webhookJobs>>

\* An await of execute rejects: execute has no catch, the error goes to the
\* caller and what was written before stays.
RequestFails(r) ==
    /\ chargeRequests' = Leave(chargeRequests, r)
    /\ UNCHANGED <<creating, giftCards, transactions, commissions, calls, now>>
    /\ UNCHANGED <<chargeJobs, webhookReply, commissionRate, charges,
                   webhooks, webhookJobs>>

\* AsaasWebhookData {event, payment} about charge ch.
WebhookData(event, ch, dates) ==
    [event |-> event,
     payment |-> [id |-> ch,
                  externalReference |-> charges[ch].externalReference,
                  confirmedDate |-> dates.confirmedDate,
                  clientPaymentDate |-> dates.clientPaymentDate]]

\* Env.get('ASAAS_WEBHOOK_SECRET'), and a key that is not the secret.
WebhookSecret == "ASAAS_WEBHOOK_SECRET"
Secrets == {WebhookSecret, "other"}

\* crypto.createHmac('sha256', secret).update(payload).digest('hex'): the
\* digest is determined by the key and the payload and differs when either
\* differs; in hex it has 64 characters.
Hmac(secret, payload) ==
    [digest |-> <<secret, payload>>, length |-> DigestLength]

\* The x-asaas-signature header left empty.
NoSignature == [digest |-> <<>>, length |-> 0]

\* crypto.timingSafeEqual(a, b) throws when the lengths differ.
timingSafeEqual(a, b) ==
    IF a.length # b.length THEN "RangeError"
    ELSE IF a = b THEN "true" ELSE "false"

\* WebhookValidator.validateSignature(payload, signature)
validateSignature(payload, signature) ==
    timingSafeEqual(signature, Hmac(WebhookSecret, payload))

\* The signature the gateway sends with payload.
GatewaySignature(payload) == Hmac(WebhookSecret, payload)

\* The signatures a request for payload can carry: the gateway's, one made
\* with another key, the gateway's signature of another payload, none.
Signatures(payload) ==
    {Hmac(k, payload) : k \in Secrets}
        \cup {Hmac(WebhookSecret, [payload EXCEPT !.event = "PAYMENT_CREATED"])}
        \cup {NoSignature}

\* No request has been made yet.
NoReply == [status |-> "none"]

\* A request to POST /webhooks/asaas under way: the controller awaits
\* validateSignature, and then the insert of the row.
Request(payload, signature, status) ==
    [payload |-> payload, signature |-> signature, status |-> status]
UnderWay == {"validating", "storing"}

\* Variant: the controller stores the payload whatever the validator said.
AfterValidationUnchecked(verdict) == "storing"

\* What the controller does once validateSignature has resolved or thrown:
\* it stores the payload when the signature has verified, answers 401 when
\* it has not and leaves a throw of the validator to the framework, which
\* answers 500.
AfterValidation(verdict) ==
    CASE verdict = "true" -> "storing"
      [] verdict = "false" -> "401 Unauthorized"
      [] OTHER -> "500 Internal Server Error"

\* POST /webhooks/asaas: a request notifies an event of a charge of the
\* gateway, with a signature of its payload; the controller calls
\* validateSignature.
ReceiveWebhook(event, ch, dates, signature) ==
    /\ Len(webhooks) < MaxWebhooks
    /\ webhookReply.status \notin UnderWay
    /\ webhookReply' = Request(WebhookData(event, ch, dates), signature,
                               "validating")
    /\ UNCHANGED <<creating, giftCards, transactions, commissions, calls, now>>
    /\ UNCHANGED <<commissionRate, chargeJobs, chargeRequests, charges,
                   webhooks, webhookJobs>>

\* validateSignature resolves or throws: the request goes on to the insert
\* of its payload, or is answered.
ValidateWebhook ==
    /\ webhookReply.status = "validating"
    /\ webhookReply' =
          [webhookReply EXCEPT !.status =
              AfterValidation(validateSignature(webhookReply.payload,
                                                webhookReply.signature))]
    /\ UNCHANGED <<creating, giftCards, transactions, commissions, calls, now>>
    /\ UNCHANGED <<commissionRate, chargeJobs, chargeRequests, charges,
                   webhooks, webhookJobs>>

\* The payload is stored, a ProcessWebhook job queued for the row and the
\* request answered 200 OK.
StoreWebhook ==
    /\ webhookReply.status = "storing"
    /\ webhooks' = Append(webhooks, [payload |-> webhookReply.payload,
                                     processedAt |-> Null])
    /\ webhookReply' = [webhookReply EXCEPT !.status = "200 OK"]
    /\ UNCHANGED <<creating, giftCards, transactions, commissions, calls, now>>
    /\ UNCHANGED <<commissionRate, chargeJobs, chargeRequests, charges,
                   webhookJobs>>

\* No commission has the payment's external reference (null).
NoCommissionFound == [id |-> Null, status |-> "null"]

\* Find commission by external reference (`commission_${commission.id}`):
\* the commission as it is read, of which the handlers use id and status.
findCommissionByPayment(payment) ==
    IF payment.externalReference \in CommissionIds
    THEN [id |-> payment.externalReference,
          status |-> commissions[payment.externalReference].status]
    ELSE NoCommissionFound

\* An update of a commission: the columns it names with their values.
Columns(names, status, paidAt) ==
    [names |-> names, status |-> status, paidAt |-> paidAt]

\* A handler that updates no column.
NoColumns == Columns({}, "", Null)

\* commissionRepository.update(id, columns) on the row as it is when the
\* update arrives: the columns named are written, the others kept.
Updated(row, columns) ==
    [row EXCEPT
        !.status = IF "status" \in columns.names THEN columns.status ELSE @,
        !.paidAt = IF "paidAt" \in columns.names THEN columns.paidAt ELSE @]

\* DateTime.fromISO(payment.confirmedDate || payment.clientPaymentDate)
PaidAt(commission, payment) ==
    IF payment.confirmedDate # Null
    THEN payment.confirmedDate
    ELSE payment.clientPaymentDate

\* commissionRepository.update(commission.id, {status: 'paid', paidAt})
handlePaymentSuccess(commission, payment) ==
    Columns({"status", "paidAt"}, "paid", PaidAt(commission, payment))

\* Variant: an overdue payment is recorded in the commission's status.
handlePaymentOverdueRecorded(commission, payment) ==
    Columns({"status"}, "overdue", Null)

\* Commission remains in 'charged' status but is now overdue
handlePaymentOverdue(commission, payment) == NoColumns

\* Deletion and refund cancel the obligation: the commission is set to
\* failed, provided it is not already paid.  Like handlePaymentSuccess the
\* handler is given the commission execute has read and writes with
\* commissionRepository.update(commission.id, columns).
handlePaymentCancellation(commission, payment) ==
    IF commission.status = "paid" THEN NoColumns
    ELSE Columns({"status"}, "failed", Null)

\* switch (event) of ProcessWebhookService.execute: the columns the handler
\* of the event updates.
ProcessWebhook(commission, webhookData) ==
    CASE webhookData.event \in SuccessEvents ->
            handlePaymentSuccess(commission, webhookData.payment)
      [] webhookData.event = "PAYMENT_OVERDUE" ->
            handlePaymentOverdue(commission, webhookData.payment)
      [] webhookData.event \in CancellationEvents ->
            handlePaymentCancellation(commission, webhookData.payment)
      [] OTHER -> NoColumns

\* The events whose handler awaits the notification service.
NotifiedEvents == SuccessEvents \cup {"PAYMENT_OVERDUE"}

\* if (!webhook || webhook.processedAt) return // Already processed
WebhookJobSkip(w) ==
    /\ BagCardinality(webhookJobs) < MaxWebhookRuns
    /\ webhooks[w].processedAt # Null
    /\ UNCHANGED vars

\* DateTime.now()
DateTimeNow == now

\* webhookService.execute has returned to execution x, which calls
\* webhookRepository.update(webhookId, {processedAt: DateTime.now()}): the
\* time is read at the call, and the update awaited.
Marking(x) ==
    [x EXCEPT !.pc = "mark", !.commission = NoCommissionFound,
              !.processedAt = DateTimeNow]

\* A worker runs ProcessWebhookJob.handle for webhook w (the queue delivers
\* a job at least once, and again after a failure): it loads the row and
\* goes on when processedAt is empty.
WebhookJobStart(w) ==
    /\ BagCardinality(webhookJobs) < MaxWebhookRuns
    /\ webhooks[w].processedAt = Null
    /\ webhookJobs' = webhookJobs
          (+) SetToBag({[webhookId |-> w, pc |-> "execute",
                         commission |-> NoCommissionFound,
                         processedAt |-> Null]})
    /\ UNCHANGED <<creating, giftCards, transactions, commissions, calls, now>>
    /\ UNCHANGED <<chargeJobs, chargeRequests, webhookReply, commissionRate,
                   charges, webhooks>>

\* Where webhookService.execute awaits next, once the commission was read:
\* the update of the handler, the notification of a handler that updates
\* nothing, or nothing more (no commission, no case for the event), so
\* that execute returns.
AfterFind(commission, webhookData) ==
    IF commission = NoCommissionFound THEN "mark"
    ELSE IF ProcessWebhook(commission, webhookData) # NoColumns THEN "handle"
    ELSE IF webhookData.event \in NotifiedEvents THEN "notify"
    ELSE "mark"

\* webhookService.execute(webhook.payload): findCommissionByPayment
\* resolves and the switch hands the commission read to the handler.
WebhookJobFind(x) ==
    /\ x.pc = "execute"
    /\ LET webhookData == webhooks[x.webhookId].payload
           commission == findCommissionByPayment(webhookData.payment)
           next == AfterFind(commission, webhookData)
       IN webhookJobs' = Move(webhookJobs, x,
             CASE next = "handle" ->
                    [x EXCEPT !.pc = "handle", !.commission = commission]
               [] next = "notify" -> [x EXCEPT !.pc = "notify"]
               [] OTHER -> Marking(x))
    /\ UNCHANGED <<creating, giftCards, transactions, commissions, calls, now>>
    /\ UNCHANGED <<chargeJobs, chargeRequests, webhookReply, commissionRate,
                   charges, webhooks>>

\* The update of the handler resolves: the columns it decided on with the
\* commission it was handed are written to the row.
WebhookJobHandle(x) ==
    /\ x.pc = "handle"
    /\ LET webhookData == webhooks[x.webhookId].payload IN
       /\ commissions' = [commissions EXCEPT ![x.commission.id] =
             Updated(@, ProcessWebhook(x.commission, webhookData))]
       /\ webhookJobs' = Move(webhookJobs, x,
             IF webhookData.event \in NotifiedEvents
             THEN [x EXCEPT !.pc = "notify",
                            !.commission = NoCommissionFound]
             ELSE Marking(x))
    /\ UNCHANGED <<creating, giftCards, transactions, calls, now>>
    /\ UNCHANGED <<chargeJobs, chargeRequests, webhookReply, commissionRate,
                   charges, webhooks>>

\* notificationService.sendPaymentConfirmation or sendOverdueNotification
\* resolves and execute returns.
WebhookJobNotify(x) ==
    /\ x.pc = "notify"
    /\ webhookJobs' = Move(webhookJobs, x, Marking(x))
    /\ UNCHANGED <<creating, giftCards, transactions, commissions, calls, now>>
    /\ UNCHANGED <<chargeJobs, chargeRequests, webhookReply, commissionRate,
                   charges, webhooks>>

\* The update of the webhook row resolves, with the time read when it was
\* called, and handle returns.
WebhookJobMark(x) ==
    /\ x.pc = "mark"
    /\ webhooks' = [webhooks EXCEPT ![x.webhookId].processedAt = x.processedAt]
    /\ webhookJobs' = Leave(webhookJobs, x)
    /\ UNCHANGED <<creating, giftCards, transactions, commissions, calls, now>>
    /\ UNCHANGED <<chargeJobs, chargeRequests, webhookReply, commissionRate,
                   charges>>

\* An await of handle rejects (the read of the commission, the update of
\* the handler, the notification, the update of the webhook): the error is
\* rethrown, what was written stays and processedAt stays empty.
WebhookJobThrows(x) ==
    /\ x.pc \in {"execute", "handle", "notify", "mark"}
    /\ webhookJobs' = Leave(webhookJobs, x)
    /\ UNCHANGED <<creating, giftCards, transactions, commissions, calls, now>>
    /\ UNCHANGED <<chargeJobs, chargeRequests, webhookReply, commissionRate,
                   charges, webhooks>>

\* ------------------------------------------------------------ specification

\* The ledger of the cards the franchisee has had created: card c with the
\* c-th id of nanoid(), some with a validUntil that lies ahead.
Init ==
    /\ now = 0
    /\ \E n \in 1..MaxCards :
          \E v \in [1..n -> InitialValues],
             u \in [1..n -> {NoExpiry} \cup {t \in Times : t > 0}] :
              /\ giftCards = [c \in 1..n |-> CreatedCard(Nanoid(c), v[c], u[c])]
              /\ creation = Created(Nanoid(n))
    /\ creations = EmptyBag
    /\ batch = NoBatch
    /\ transactions = <<>>
    /\ commissions = <<>>
    /\ calls = EmptyBag
    /\ commissionRate = DefaultCommissionRate
    /\ chargeJobs = EmptyBag
    /\ chargeRequests = EmptyBag
    /\ charges = <<>>
    /\ webhooks = <<>>
    /\ webhookJobs = EmptyBag
    /\ webhookReply = NoReply

Next ==
    \/ \E c \in CardIds : CancelGiftCard(c)
    \/ \E c \in CardIds : ExpireGiftCard(c)
    \/ Tick
    \/ \E c \in CardIds, a \in Amounts : RechargeValidate(c, a)
    \/ \E p \in Calls : RechargeCreateTransaction(p)
    \/ \E p \in Calls : RechargeUpdate(p)
    \/ \E p \in Calls : RechargeCreateCommission(p)
    \/ \E c \in CardIds, a \in Amounts : UseValidate(c, a)
    \/ \E p \in Calls : UseCreateTransaction(p)
    \/ \E p \in Calls : UseUpdate(p)
    \/ \E p \in Calls : WriteFails(p)

Spec == Init /\ [][Next]_vars

\* No card has been created yet.
InitCreate ==
    /\ now = 0
    /\ giftCards = <<>>
    /\ creation = NoCreation
    /\ creations = EmptyBag
    /\ batch = NoBatch
    /\ transactions = <<>>
    /\ commissions = <<>>
    /\ calls = EmptyBag
    /\ commissionRate = DefaultCommissionRate
    /\ chargeJobs = EmptyBag
    /\ chargeRequests = EmptyBag
    /\ charges = <<>>
    /\ webhooks = <<>>
    /\ webhookJobs = EmptyBag
    /\ webhookReply = NoReply

\* The quantity of a batch.
Quantities == {2}

\* The steps of the runs of CreateGiftCardService.
CreationStep ==
    \/ \E r \in Creations, id \in Nanoids : CreateValidate(r, id)
    \/ \E r \in Creations : CreateQrCode(r)
    \/ \E r \in Creations : CreateInsert(r)
    \/ \E r \in Creations : CreateFails(r)

\* The creation of cards, one by one and in batches, by requests that have
\* passed the validator, while nanoid() returns ids it has returned before.
NextCreate ==
    \/ \E v \in InitialValues, u \in {NoExpiry} \cup Times,
          e \in Relationships :
          createSchema(v, u) /\ CreateGiftCard(v, u, e)
    \/ \E q \in Quantities, v \in InitialValues, u \in {NoExpiry} \cup Times,
          e \in Relationships :
          createSchema(v, u) /\ CreateBatch(q, v, u, e)
    \/ CreationStep
    \/ Tick

SpecCreate == InitCreate /\ [][NextCreate]_vars

\* The recharges of the cards of a franchisee whose rate is reconfigured.
NextRecharge ==
    \/ \E c \in CardIds, a \in RechargeAmounts : RechargeValidate(c, a)
    \/ \E p \in Calls : RechargeCreateTransaction(p)
    \/ \E p \in Calls : RechargeUpdate(p)
    \/ \E p \in Calls : RechargeCreateCommission(p)
    \/ \E r \in Rates : UpdateFranchisee(r)

SpecRecharge == Init /\ [][NextRecharge]_vars

\* The settlement of the commission of a recharge: the ledger as the recharge
\* of 1 on a card created with 2 left it.
InitSettle ==
    /\ now = 0
    /\ commissionRate = DefaultCommissionRate
    /\ giftCards = <<[code |-> generateUniqueCode(Nanoid(1)),
                      initialValue |-> 200, currentBalance |-> 300,
                      status |-> "active", validUntil |-> NoExpiry]>>
    /\ transactions = <<NewTransaction(1, "recharge", 100, 200, 300)>>
    /\ commissions = <<NewCommission(1,
                          CommissionAmount(100, DefaultCommissionRate),
                          DefaultCommissionRate)>>
    /\ calls = SetToBag({[NewCall("recharge", 1, 100, 200, NoError)
                            EXCEPT !.pc = "done", !.transactionId = 1]})
    /\ chargeJobs = EmptyBag
    /\ chargeRequests = EmptyBag
    /\ charges = <<>>
    /\ webhooks = <<>>
    /\ webhookJobs = EmptyBag
    /\ webhookReply = NoReply
    /\ creation = Created(Nanoid(1))
    /\ creations = EmptyBag
    /\ batch = NoBatch

\* The steps of the CommissionCharge jobs.
ChargeJobStep ==
    \/ \E j \in ChargeJobs : ChargeJobLoad(j)
    \/ \E j \in ChargeJobs : ChargeJobLoadFails(j)
    \/ \E j \in ChargeJobs : ChargeJobEnsureCustomer(j)
    \/ \E j \in ChargeJobs : ChargeJobCreateCharge(j)
    \/ \E j \in ChargeJobs : ChargeJobGatewayFails(j)
    \/ \E j \in ChargeJobs : ChargeJobUpdate(j)
    \/ \E j \in ChargeJobs : ChargeJobUpdateFails(j)
    \/ \E j \in ChargeJobs : ChargeJobCatch(j)
    \/ \E j \in ChargeJobs : ChargeJobCatchFails(j)
    \/ \E j \in ChargeJobs : ChargeJobRetry(j)

\* The steps of the requests to POST /commissions/:id/charge.
ChargeRequestStep ==
    \/ \E r \in ChargeRequests : RequestEnsureCustomer(r)
    \/ \E r \in ChargeRequests : RequestCreateCharge(r)
    \/ \E r \in ChargeRequests : RequestUpdate(r)
    \/ \E r \in ChargeRequests : RequestFails(r)

\* The steps of a request to POST /webhooks/asaas.
WebhookRequestStep ==
    \/ ValidateWebhook
    \/ StoreWebhook

\* The steps of the ProcessWebhook jobs.
WebhookJobStep ==
    \/ \E w \in WebhookIds : WebhookJobSkip(w)
    \/ \E w \in WebhookIds : WebhookJobStart(w)
    \/ \E x \in WebhookJobs : WebhookJobFind(x)
    \/ \E x \in WebhookJobs : WebhookJobHandle(x)
    \/ \E x \in WebhookJobs : WebhookJobNotify(x)
    \/ \E x \in WebhookJobs : WebhookJobMark(x)
    \/ \E x \in WebhookJobs : WebhookJobThrows(x)

\* The charge jobs and the first webhook the gateway sends about their
\* charges, while the database answers: a job fails at the gateway only.
NextSettle ==
    \/ \E k \in CommissionIds, m \in PaymentMethods : QueueCommissionJob(k, m)
    \/ \E j \in ChargeJobs : ChargeJobLoad(j)
    \/ \E j \in ChargeJobs : ChargeJobEnsureCustomer(j)
    \/ \E j \in ChargeJobs : ChargeJobCreateCharge(j)
    \/ \E j \in ChargeJobs : ChargeJobGatewayFails(j)
    \/ \E j \in ChargeJobs : ChargeJobUpdate(j)
    \/ \E j \in ChargeJobs : ChargeJobCatch(j)
    \/ \E e \in SuccessEvents, ch \in ChargeIds, d \in ConfirmedDates :
          /\ webhooks = <<>>
          /\ ReceiveWebhook(e, ch, d, GatewaySignature(WebhookData(e, ch, d)))
    \/ \E e \in Events \ SuccessEvents, ch \in ChargeIds :
          /\ webhooks = <<>>
          /\ ReceiveWebhook(e, ch, NoDates,
                            GatewaySignature(WebhookData(e, ch, NoDates)))
    \/ WebhookRequestStep
    \/ WebhookJobStep

SpecSettle == InitSettle /\ [][NextSettle]_vars

\* "paymentMethodDefault": "pix"
PaymentMethodDefault == "pix"

\* The charge jobs of the commission alone, with the gateway and the
\* database: the jobs queued for it, or for an id without a row, with the
\* franchisee's default payment method.
NextCharge ==
    \/ \E k \in CommissionIds \cup {MissingCommissionId} :
          QueueCommissionJob(k, PaymentMethodDefault)
    \/ ChargeJobStep

SpecCharge == InitSettle /\ [][NextCharge]_vars

\* The requests to charge the commission, beside its jobs.
NextRequest ==
    \/ NextCharge
    \/ \E k \in CommissionIds : RequestCharge(k, PaymentMethodDefault)
    \/ ChargeRequestStep

SpecRequest == InitSettle /\ [][NextRequest]_vars

\* A worker takes every job that waits and runs handle to its end, and the
\* queue runs a failed job again when its backoff delay has passed.
SpecChargeFair == SpecCharge /\ WF_vars(ChargeJobStep)

\* The webhooks of a charge alone: the commission as a completed charge job
\* left it.
InitWebhook ==
    /\ now = 0
    /\ commissionRate = DefaultCommissionRate
    /\ giftCards = <<[code |-> generateUniqueCode(Nanoid(1)),
                      initialValue |-> 200, currentBalance |-> 300,
                      status |-> "active", validUntil |-> NoExpiry]>>
    /\ transactions = <<NewTransaction(1, "recharge", 100, 200, 300)>>
    /\ \E m \in PaymentMethods :
          /\ commissions = <<ChargedCommission(
                                NewCommission(1,
                                    CommissionAmount(100, DefaultCommissionRate),
                                    DefaultCommissionRate),
                                1, m)>>
          /\ charges = <<ChargeData(findWithRelations(1), m)>>
    /\ calls = SetToBag({[NewCall("recharge", 1, 100, 200, NoError)
                            EXCEPT !.pc = "done", !.transactionId = 1]})
    /\ chargeJobs = EmptyBag
    /\ chargeRequests = EmptyBag
    /\ webhooks = <<>>
    /\ webhookJobs = EmptyBag
    /\ webhookReply = NoReply
    /\ creation = Created(Nanoid(1))
    /\ creations = EmptyBag
    /\ batch = NoBatch

NextWebhook ==
    \/ Tick
    \/ \E e \in SuccessEvents, ch \in ChargeIds, d \in ConfirmedDates :
          \E s \in Signatures(WebhookData(e, ch, d)) :
              ReceiveWebhook(e, ch, d, s)
    \/ \E e \in Events \ SuccessEvents, ch \in ChargeIds :
          \E s \in Signatures(WebhookData(e, ch, NoDates)) :
              ReceiveWebhook(e, ch, NoDates, s)
    \/ WebhookRequestStep
    \/ WebhookJobStep

SpecWebhook == InitWebhook /\ [][NextWebhook]_vars

\* Requests to POST /webhooks/asaas about the confirmation of a charge and
\* about its deletion, with every signature, and what follows from them.
NextReceive ==
    \/ \E ch \in ChargeIds, d \in ConfirmedDates :
          \E s \in Signatures(WebhookData("PAYMENT_CONFIRMED", ch, d)) :
              ReceiveWebhook("PAYMENT_CONFIRMED", ch, d, s)
    \/ \E ch \in ChargeIds :
          \E s \in Signatures(WebhookData("PAYMENT_DELETED", ch, NoDates)) :
              ReceiveWebhook("PAYMENT_DELETED", ch, NoDates, s)
    \/ WebhookRequestStep
    \/ WebhookJobStep

SpecReceive == InitWebhook /\ [][NextReceive]_vars

\* The kinds of event that have no effect on a commission.
InformationalEvents == Events \ (SuccessEvents \cup CancellationEvents)

\* The charge job of the commission, which can fail at the gateway and at
\* its update, and the webhooks the gateway sends about its charge: the
\* confirmation of the payment, with its confirmedDate, and the events that
\* have no effect.
NextEvent ==
    \/ \E k \in CommissionIds :
          /\ chargeJobs = EmptyBag /\ charges = <<>>
          /\ QueueCommissionJob(k, PaymentMethodDefault)
    \/ \E j \in ChargeJobs : ChargeJobLoad(j)
    \/ \E j \in ChargeJobs : ChargeJobEnsureCustomer(j)
    \/ \E j \in ChargeJobs : ChargeJobCreateCharge(j)
    \/ \E j \in ChargeJobs : ChargeJobGatewayFails(j)
    \/ \E j \in ChargeJobs : ChargeJobUpdate(j)
    \/ \E j \in ChargeJobs : ChargeJobUpdateFails(j)
    \/ \E j \in ChargeJobs : ChargeJobCatch(j)
    \/ \E ch \in ChargeIds :
          \E d \in {c \in ConfirmedDates : c.confirmedDate # Null} :
              ReceiveWebhook("PAYMENT_CONFIRMED", ch, d,
                  GatewaySignature(WebhookData("PAYMENT_CONFIRMED", ch, d)))
    \/ \E e \in InformationalEvents, ch \in ChargeIds :
          ReceiveWebhook(e, ch, NoDates,
                         GatewaySignature(WebhookData(e, ch, NoDates)))
    \/ WebhookRequestStep
    \/ WebhookJobStep

SpecEvent == InitSettle /\ [][NextEvent]_vars

TypeOK ==
    /\ now \in Times
    /\ Len(giftCards) <= MaxCards \/ Len(giftCards) <= MaxCreated
    /\ BagCardinality(calls) <= MaxCalls
    /\ \A c \in CardIds :
          giftCards[c].status \in {"active", "used", "expired", "cancelled"}
    /\ \A r \in Creations : r.pc \in {"validate", "qrCode", "create"}
    /\ batch.createdCount + batch.pending <= batch.quantity
    /\ BagCardinality(chargeJobs) <= MaxChargeJobs
    /\ BagCardinality(chargeRequests) <= MaxChargeRequests
    /\ Len(charges) <= MaxCharges
    /\ Len(webhooks) <= MaxWebhooks \/ chargeRequests = EmptyBag
    /\ BagCardinality(webhookJobs) <= MaxWebhookRuns
    /\ \A k \in CommissionIds :
          commissions[k].status \in {"pending", "charged", "paid", "failed"}

\* ------------------------------------------------------------------ helpers

TransactionsOf(txs, c) == SelectSeq(txs, LAMBDA t : t.giftCardId = c)

RECURSIVE Sum(_, _)
Sum(f(_), S) ==
    IF S = {} THEN 0
    ELSE LET x == CHOOSE y \in S : TRUE IN f(x) + Sum(f, S \ {x})

\* The balance change a call asks for.
Delta(call) == IF call.op = "recharge" THEN call.amount ELSE 0 - call.amount

\* Calls on card c that returned successfully.
Accepted(c) == {call \in Calls : call.giftCardId = c /\ call.pc = "done"}

\* Every call on card c has returned, successfully or rejected by its checks.
Settled(c) ==
    \A call \in Calls :
        call.giftCardId = c => call.pc \in {"done", "rejected"}

\* The card row has received the balance of transaction t.
BalanceWritten(t) ==
    \E call \in Calls :
        call.transactionId = t /\ call.pc \in {"commission", "done"}

\* Call p returns successfully in this step.
Returns(p) == calls' = Step(p, [p EXCEPT !.pc = "done"])

\* Call q is the request that arrives in this step.
Arrives(q) == calls' = calls (+) SetToBag({q})

Terminal(card) ==
    card.status \in {"used", "expired", "cancelled"} \/ Expired(card)

\* ------------------------------------------------------------------- claims

\* C1: concurrent recharge and use calls on one card take effect as if run
\* one at a time: once every call on a card has returned, its currentBalance
\* minus its initial value equals the sum of the accepted recharge amounts
\* minus the sum of the accepted usage amounts.
C1_AcceptedDeltasAddUp ==
    \A c \in CardIds :
        Settled(c) =>
            giftCards[c].currentBalance - giftCards[c].initialValue
                = Sum(Delta, Accepted(c))

\* C2: in every state the transactions of a card, in creation order, chain
\* balanceAfter to the next balanceBefore, and the last balanceAfter is the
\* card's currentBalance.
C2_TransactionChain ==
    \A c \in CardIds :
        LET ts == TransactionsOf(transactions, c) IN
        /\ \A i \in 1..(Len(ts) - 1) : ts[i].balanceAfter = ts[i + 1].balanceBefore
        /\ Len(ts) > 0 => ts[Len(ts)].balanceAfter = giftCards[c].currentBalance

\* C3: no partial write is observable: whenever a transaction row is present,
\* the card row has received its balance as well.
C3_NoPartialWrite ==
    \A t \in DOMAIN transactions : BalanceWritten(t)

\* C4 (as stated): every gift card satisfies 0 <= currentBalance <= initialValue.
C4_BalanceWithinInitialValue ==
    \A c \in CardIds :
        /\ 0 <= giftCards[c].currentBalance
        /\ giftCards[c].currentBalance <= giftCards[c].initialValue

RechargedAmount(t) == IF t.type = "recharge" THEN t.amount ELSE 0

\* C4 (amended): every gift card satisfies 0 <= currentBalance, and
\* currentBalance is at most initialValue plus the amounts of the card's
\* recharge transactions.
C4_BalanceBounds ==
    \A c \in CardIds :
        LET ts == TransactionsOf(transactions, c) IN
        /\ 0 <= giftCards[c].currentBalance
        /\ giftCards[c].currentBalance
              <= giftCards[c].initialValue
                 + Sum(LAMBDA i : RechargedAmount(ts[i]), DOMAIN ts)

C4_Witness ==
    \E c \in CardIds :
        /\ giftCards[c].currentBalance > giftCards[c].initialValue
        /\ \E call \in Accepted(c) : call.op = "recharge"

\* The row a recharge of `call` writes, as the claim states it.
C5_Row(call) ==
    [giftCardId |-> call.giftCardId, type |-> "recharge", amount |-> call.amount,
     balanceBefore |-> call.balanceBefore,
     balanceAfter |-> call.balanceBefore + call.amount]

C5_OneRow ==
    /\ \A call \in Calls :
          call.op = "recharge" /\ call.transactionId # 0 =>
              /\ call.transactionId \in DOMAIN transactions
              /\ transactions[call.transactionId] = C5_Row(call)
    /\ \A t \in DOMAIN transactions :
          transactions[t].type = "recharge" =>
              Cardinality({call \in Calls : call.transactionId = t}) = 1
                  /\ CopiesIn(CHOOSE call \in Calls : call.transactionId = t, calls) = 1

C5_Step ==
    /\ \A q \in BagToSet(calls') :
          q.op = "recharge" /\ q.pc # "rejected" /\ Arrives(q) =>
              /\ giftCards[q.giftCardId].status = "active"
              /\ q.balanceBefore = giftCards[q.giftCardId].currentBalance
    /\ \A p \in Calls :
          (/\ p.op = "recharge" /\ p.pc = "update"
           /\ calls' = Step(p, [p EXCEPT !.pc = "commission"])) =>
              /\ giftCards'[p.giftCardId].currentBalance = p.balanceBefore + p.amount
              /\ transactions' = transactions

\* C5: a recharge of amount A accepted on an active card with currentBalance B
\* sets currentBalance to B + A and writes exactly one transaction of type
\* recharge with amount A, balanceBefore B and balanceAfter B + A.
C5_RechargeEffect == [](C5_OneRow) /\ [][C5_Step]_vars

\* initialValue 2.00 recharged by 1.00 gives currentBalance 3.00.
C5_Witness ==
    \E c \in CardIds :
        /\ giftCards[c].initialValue = 200
        /\ giftCards[c].currentBalance = 300
        /\ Len(transactions) = 1
        /\ \E call \in Accepted(c) :
              call.op = "recharge" /\ call.amount = 100 /\ call.balanceBefore = 200

\* C6: a use whose amount exceeds the balance of a valid card is rejected with
\* an insufficient-balance error that carries the available and the requested
\* amount.
C6_ErrorCarriesAmounts ==
    \A call \in Calls :
        (/\ call.op = "use"
         /\ call.amount > call.balanceBefore
         /\ call.error.code \notin {"INVALID_STATUS", "EXPIRED_CARD"}) =>
            /\ call.pc = "rejected"
            /\ "available" \in DOMAIN call.error
            /\ "requested" \in DOMAIN call.error
            /\ call.error.available = call.balanceBefore
            /\ call.error.requested = call.amount

\* A usage on card c writes a balance of exactly 0 in this step.
C7_UsageToZero(c) ==
    \E p \in Calls :
        /\ p.op = "use" /\ p.giftCardId = c /\ p.pc = "update"
        /\ Returns(p)
        /\ giftCards'[c].currentBalance = 0

C7_Step ==
    \A c \in CardIds :
        /\ giftCards[c].status = "active" =>
              (giftCards'[c].status = "used" <=> C7_UsageToZero(c))
        /\ giftCards[c].status # "used" /\ giftCards'[c].status = "used" =>
              C7_UsageToZero(c)
        /\ giftCards[c].status = "used" => giftCards'[c].status = "used"

\* C7: a card goes from active to used exactly in the step where a usage
\* brings currentBalance to 0; no other step sets used, a usage that leaves a
\* positive balance leaves an active card active, and a used card stays used.
C7_UsedExactlyAtZero == [][C7_Step]_vars

C7_Witness ==
    \E c \in CardIds :
        /\ giftCards[c].status = "used"
        /\ giftCards[c].currentBalance = 0
        /\ \E call \in Accepted(c) : call.op = "use"
        /\ \E call \in Accepted(c) :
              call.op = "use" /\ call.balanceBefore - call.amount > 0

C8_Step ==
    \A c \in CardIds :
        Terminal(giftCards[c]) =>
            /\ giftCards'[c].currentBalance = giftCards[c].currentBalance
            /\ TransactionsOf(transactions', c) = TransactionsOf(transactions, c)
            /\ \A q \in BagToSet(calls') :
                  Arrives(q) /\ q.giftCardId = c => q.pc = "rejected"

\* C8: once a card is used, expired or cancelled, or its validUntil has
\* passed, every recharge and use on it is rejected and its currentBalance and
\* its transactions never change again.
C8_TerminalIsFrozen == [][C8_Step]_vars

\* A use arrives in this step at a card that is used with balance 0.
C9_FurtherUse(q) ==
    /\ q.op = "use"
    /\ giftCards[q.giftCardId].status = "used"
    /\ giftCards[q.giftCardId].currentBalance = 0
    /\ Arrives(q)

C9_WritesNothing ==
    UNCHANGED <<giftCards, transactions, commissions>>

\* C9: after a use has brought a card to currentBalance 0 and status used, a
\* further use of any positive amount fails with InsufficientBalanceError
\* reporting available 0 and the requested amount, and writes nothing.
C9_FurtherUseInsufficient ==
    [][\A q \in BagToSet(calls') :
          C9_FurtherUse(q) =>
              /\ q.pc = "rejected"
              /\ "available" \in DOMAIN q.error
              /\ "requested" \in DOMAIN q.error
              /\ q.error.available = 0
              /\ q.error.requested = q.amount
              /\ C9_WritesNothing]_vars

\* C10: in every state each recharge transaction has exactly one commission
\* and each usage transaction none, through the commission's transaction id.
C10_OneCommissionPerRecharge ==
    /\ \A t \in DOMAIN transactions :
          Cardinality({k \in DOMAIN commissions :
                          commissions[k].transactionId = t})
              = IF transactions[t].type = "recharge" THEN 1 ELSE 0
    /\ \A k \in DOMAIN commissions :
          commissions[k].transactionId \in DOMAIN transactions

\* The commission written for the recharge transaction of call p, if any.
CommissionsOf(p) ==
    {k \in DOMAIN commissions : commissions[k].transactionId = p.transactionId}

\* round(A * R / 100): the commission amount rounded to the cent, half up,
\* counted like CommissionAmount in hundredths of a cent.
RoundedCommissionAmount(amount, rate) == ((amount * rate + 50) \div 100) * 100

\* C11: a recharge of amount A at commission rate R returns a commission with
\* amount = round(A * R / 100), rate = R and status pending, and the
\* commission is in that state, with no gateway charge, when the call returns.
C11_CommissionDerivation ==
    \A p \in Calls :
        p.op = "recharge" /\ p.pc = "done" =>
            \E k \in CommissionsOf(p) :
                /\ commissions[k].amount
                      = RoundedCommissionAmount(p.amount, p.rate)
                /\ commissions[k].rate = p.rate
                /\ commissions[k].status = "pending"
                /\ commissions[k].asaasChargeId = Null

\* Every commission carries the rate its recharge call read, and the amount
\* computed from that rate.
C12_RateOfRecharge ==
    \A p \in Calls :
        \A k \in CommissionsOf(p) :
            p.op = "recharge" =>
                /\ commissions[k].rate = p.rate
                /\ commissions[k].amount = p.amount * p.rate

C12_Step ==
    \* the rate a recharge reads is the rate configured when it arrives
    /\ \A q \in BagToSet(calls') :
          Arrives(q) => q.rate = commissionRate /\ q.rate \in Rates
    \* no step, a change of the rate included, rewrites a commission
    /\ \A k \in DOMAIN commissions :
          /\ k \in DOMAIN commissions'
          /\ commissions'[k].rate = commissions[k].rate
          /\ commissions'[k].amount = commissions[k].amount
    /\ commissionRate' # commissionRate => commissions' = commissions

\* C12: changing the franchisee's commission rate leaves the rate and the
\* amount of every commission already created unchanged; a commission carries
\* the rate that was configured at the moment of its recharge.
C12_RateSnapshot == [](C12_RateOfRecharge) /\ [][C12_Step]_vars

\* A commission written at rate 10 while the franchisee is back at rate 5.
C12_Witness ==
    /\ commissionRate = DefaultCommissionRate
    /\ \E p \in Calls :
          /\ p.op = "recharge" /\ p.pc = "done" /\ p.rate = 10
          /\ \E k \in CommissionsOf(p) :
                commissions[k].rate = 10 /\ commissions[k].amount = 10 * p.amount

\* --------------------------------------------------------- settlement claims

\* The gateway fails the attempt of job j in this step.
GatewayFails(j) ==
    /\ j.pc \in {"customer", "charge"}
    /\ chargeJobs' = Move(chargeJobs, j,
          [j EXCEPT !.pc = "catch", !.error = AsaasApiError])

\* The catch block of job j, entered with error e, ends in this step: it
\* rethrows e, or its own update has thrown.
Catches(j, e) ==
    /\ j.pc = "catch"
    /\ j.error = e
    /\ \E thrown \in {e, DatabaseError} :
          chargeJobs' = Move(chargeJobs, j, FailedAttempt(j, thrown))

\* Commission k is the same row but for its status.
SameButStatus(k) ==
    /\ k \in DOMAIN commissions'
    /\ [commissions'[k] EXCEPT !.status = commissions[k].status] = commissions[k]

C13_Step ==
    \A j \in ChargeJobs :
        GatewayFails(j) \/ Catches(j, AsaasApiError) =>
            /\ giftCards' = giftCards
            /\ transactions' = transactions
            /\ \A k \in CommissionIds : SameButStatus(k)
            /\ \A k \in CommissionIds \ {j.commissionId} :
                  commissions'[k] = commissions[k]

\* C13: a gateway failure while charging a commission leaves the gift card's
\* currentBalance and status and the recharge transaction as the recharge
\* committed them; of the commission only the status changes.
C13_GatewayFailureFrame == [][C13_Step]_vars

\* A charged commission whose second charge failed at the gateway: it is
\* failed and keeps its charge, the card and the transaction are untouched.
C13_Witness ==
    /\ \E j \in ChargeJobs : j.pc = "failed" /\ j.error = AsaasApiError
    /\ commissions[1].status = "failed"
    /\ commissions[1].asaasChargeId # Null
    /\ giftCards[1].currentBalance = 300
    /\ giftCards[1].status = "active"
    /\ transactions = <<NewTransaction(1, "recharge", 100, 200, 300)>>

\* The status changes the settlement state machine allows.
AllowedTransitions ==
    {<<"pending", "charged">>, <<"pending", "failed">>,
     <<"charged", "paid">>, <<"charged", "failed">>,
     <<"failed", "charged">>}

\* C14: every change of a commission's status, by a charge job or a webhook
\* event, is one of pending->charged, pending->failed, charged->paid,
\* charged->failed or failed->charged; no commission returns to pending.
C14_AllowedTransitions ==
    [][\A k \in CommissionIds :
          /\ k \in DOMAIN commissions'
          /\ commissions'[k].status # commissions[k].status =>
                <<commissions[k].status, commissions'[k].status>>
                    \in AllowedTransitions]_vars

\* C15: once a commission's status is paid it stays paid: no charge job and
\* no webhook event changes it afterwards.
C15_PaidIsAbsorbing ==
    [][\A k \in CommissionIds :
          commissions[k].status = "paid" =>
              /\ k \in DOMAIN commissions'
              /\ commissions'[k].status = "paid"]_vars

\* Job j calls the gateway in this step (the call succeeds or fails).
CallsGateway(j) ==
    \/ GatewayFails(j)
    \/ /\ j.pc = "customer"
       /\ chargeJobs' = Move(chargeJobs, j, [j EXCEPT !.pc = "charge"])
    \/ /\ j.pc = "charge"
       /\ chargeJobs' = Move(chargeJobs, j,
             [j EXCEPT !.pc = "update", !.chargeId = Len(charges) + 1])

\* A charge job completes or fails in this step.
ChargeJobWrites(j) ==
    \/ j.pc = "update" /\ chargeJobs' = Leave(chargeJobs, j)
    \/ \E e \in {AsaasApiError, DatabaseError, QueryError} : Catches(j, e)

\* C16: a charge proceeds only when the commission is pending or failed; on a
\* commission that is charged or paid the request is rejected before
\* execute runs, and a job calls no gateway and changes nothing on the
\* commission.
C16_ChargeOnlyFromPendingOrFailed ==
    /\ [](\A r \in ChargeRequests :
            r.commission.status \in {"pending", "failed"})
    /\ [][\A j \in ChargeJobs :
             j.commission.status \in {"charged", "paid"} =>
                 /\ ~CallsGateway(j)
                 /\ ChargeJobWrites(j) => commissions' = commissions]_vars

\* No failure is lost on its way to the queue: a job in its catch block holds
\* the error it caught, and a failed attempt the error that was thrown.
C17_ErrorKept ==
    \A j \in ChargeJobs :
        /\ j.pc \in {"catch", "failed"} => j.error # NoError
        /\ j.pc \in {"queued", "customer", "charge", "update"} =>
              j.error = NoError

C17_Step ==
    \A j \in ChargeJobs :
        \* a failing gateway call is caught with the gateway's error
        /\ (j.pc \in {"customer", "charge"} /\ j.error = NoError
            /\ \E next \in BagToSet(chargeJobs') :
                  next.pc = "catch" /\ chargeJobs' = Move(chargeJobs, j, next))
              => GatewayFails(j)
        \* the catch block sets failed and rethrows that error
        /\ Catches(j, AsaasApiError) =>
              /\ j.commissionId \in CommissionIds
              /\ commissions'[j.commissionId].status = "failed"
              /\ \E next \in BagToSet(chargeJobs') :
                    /\ chargeJobs' = Move(chargeJobs, j, next)
                    /\ next.pc = "failed"
                    /\ next.error = AsaasApiError
                    /\ next.attemptsMade = j.attemptsMade
        \* the queue runs it again only while attempts are left
        /\ (j.pc = "failed"
            /\ chargeJobs' = Move(chargeJobs, j,
                  [j EXCEPT !.pc = "queued", !.error = NoError]))
              => j.attemptsMade < MaxAttempts

\* C17: when the gateway rejects or fails the creation of a charge, the
\* commission's status becomes failed and the gateway's error is thrown on to
\* the queue, which sees the failed attempt and can run the job again.
C17_GatewayFailure == [](C17_ErrorKept) /\ [][C17_Step]_vars

\* C18: in every state a commission that is charged or paid holds a gateway
\* charge reference and a payment method, as a successful charge stores them.
C18_ChargedHasReference ==
    \A k \in CommissionIds :
        commissions[k].status \in {"charged", "paid"} =>
            /\ commissions[k].asaasChargeId \in ChargeIds
            /\ commissions[k].paymentMethod \in PaymentMethods

\* The commission a stored webhook is about, when there is one.
CommissionOf(webhookData) == webhookData.payment.externalReference

\* Execution x applies its webhook to the commissions in this step: the
\* update of the handler.
Applies(x) ==
    /\ x.pc = "handle"
    /\ \/ webhookJobs' = Move(webhookJobs, x, Marking(x))
       \/ webhookJobs' = Move(webhookJobs, x,
             [x EXCEPT !.pc = "notify", !.commission = NoCommissionFound])

\* The gateway's confirmation timestamp of a payment.
ConfirmationTimestamp(payment) ==
    IF payment.confirmedDate # Null
    THEN payment.confirmedDate
    ELSE payment.clientPaymentDate

\* C19: a PAYMENT_CONFIRMED or PAYMENT_RECEIVED event moves a charged
\* commission to paid and records paidAt from the gateway's confirmation
\* timestamp; it does not make a pending or failed commission paid.
C19_PaidOnlyFromCharged ==
    [][\A x \in WebhookJobs :
          LET webhookData == webhooks[x.webhookId].payload
              k == CommissionOf(webhookData)
          IN (Applies(x) /\ webhookData.event \in SuccessEvents) =>
                /\ commissions[k].status = "charged" =>
                      /\ commissions'[k].status = "paid"
                      /\ commissions'[k].paidAt
                            = ConfirmationTimestamp(webhookData.payment)
                /\ commissions[k].status \in {"pending", "failed"} =>
                      commissions'[k].status # "paid"]_vars

\* Row w holds an event of the kind and the gateway charge of the event
\* that execution x applies.
SameEvent(w, x) ==
    LET mine == webhooks[x.webhookId].payload
        other == webhooks[w].payload
    IN other.event = mine.event /\ other.payment.id = mine.payment.id

\* The event of row w was applied: an execution of it is past its handler,
\* or has marked the row.
WasApplied(w) ==
    \/ webhooks[w].processedAt # Null
    \/ \E y \in WebhookJobs : y.webhookId = w /\ y.pc \in {"notify", "mark"}

\* C20: applying the same payment-confirmation event twice (same gateway
\* charge id and event kind), by redelivery or by a duplicate execution of
\* the job, leaves the commission as applying it once: status paid, paidAt
\* the value recorded the first time.
C20_ConfirmationIdempotent ==
    [][\A x \in WebhookJobs : \A w \in WebhookIds :
          LET webhookData == webhooks[x.webhookId].payload
              k == CommissionOf(webhookData)
          IN (/\ Applies(x)
              /\ webhookData.event \in SuccessEvents
              /\ SameEvent(w, x)
              /\ WasApplied(w)) =>
                /\ commissions'[k].status = "paid"
                /\ commissions'[k].paidAt
                      = ConfirmationTimestamp(webhooks[w].payload.payment)]_vars

\* Execution x takes a step: it moves on or handle ends.
Moves(x) ==
    \/ webhookJobs' = Leave(webhookJobs, x)
    \/ \E next \in BagToSet(webhookJobs') :
          next # x /\ webhookJobs' = Move(webhookJobs, x, next)

\* webhookService.execute returns to execution x in this step.
ExecuteReturns(x) ==
    /\ x.pc \in {"execute", "handle", "notify"}
    /\ webhookJobs' = Move(webhookJobs, x, Marking(x))

C21_Step ==
    \A x \in WebhookJobs :
        LET webhookData == webhooks[x.webhookId].payload
            k == CommissionOf(webhookData)
        IN webhookData.event \in CancellationEvents =>
              \* the event, applied, leaves the commission failed, or paid
              \* as it was
              /\ ExecuteReturns(x) =>
                    commissions'[k] =
                       IF commissions[k].status = "paid"
                       THEN commissions[k]
                       ELSE [commissions[k] EXCEPT !.status = "failed"]
              \* no step of its job changes a paid commission
              /\ (Moves(x) /\ commissions[k].status = "paid") =>
                    commissions'[k] = commissions[k]

SettlementFields(commission) ==
    <<commission.status, commission.paidAt, commission.asaasChargeId,
      commission.paymentMethod>>

C22_Step ==
    \A x \in WebhookJobs :
        LET webhookData == webhooks[x.webhookId].payload
            k == CommissionOf(webhookData)
        IN (/\ Moves(x)
            /\ webhookData.event \notin SuccessEvents \cup CancellationEvents) =>
              /\ SettlementFields(commissions'[k])
                    = SettlementFields(commissions[k])
              /\ commissions[k].status = "charged" =>
                    commissions'[k].status = "charged"

\* C22: a PAYMENT_OVERDUE event and any unrecognized event kind leave the
\* commission's status, paidAt, charge reference and payment method
\* unchanged; an overdue commission remains charged.
C22_InformationalEvent == [][C22_Step]_vars

\* A PAYMENT_OVERDUE event was applied to a charged commission, which is
\* charged still, with its charge and without paidAt.
C22_Witness ==
    /\ \E x \in WebhookJobs :
          /\ x.pc = "mark"
          /\ webhooks[x.webhookId].payload.event = "PAYMENT_OVERDUE"
    /\ commissions[1].status = "charged"
    /\ commissions[1].asaasChargeId = 1
    /\ commissions[1].paidAt = Null

\* No job is attempted more often than the queue's attempts option allows.
C23_AttemptsBounded ==
    \A j \in ChargeJobs : j.attemptsMade <= MaxAttempts

\* The job's attempts are used up and the last one has failed.
Exhausted(j) == j.pc = "failed" /\ j.attemptsMade = MaxAttempts

C23_Step ==
    \A j \in ChargeJobs :
        \* an attempt that fails leaves the commission failed
        /\ (/\ j.commissionId \in CommissionIds
            /\ \E e \in {AsaasApiError, DatabaseError, QueryError} :
                  Catches(j, e)) =>
              commissions'[j.commissionId].status = "failed"
        \* a job whose attempts are used up stays with the failed jobs
        /\ Exhausted(j) => CopiesIn(j, chargeJobs') >= CopiesIn(j, chargeJobs)

\* C23: the charge-creation job of a commission is attempted at most 3 times;
\* if every attempt fails the commission ends in status failed and the job
\* ends in the failed-job record, so a commission whose charge job was
\* enqueued eventually reaches charged or failed and never stays pending
\* forever.  (The backoff delays are not part of the state.)
C23_RetryPolicy ==
    /\ [](C23_AttemptsBounded)
    /\ [][C23_Step]_vars
    /\ (\E j \in ChargeJobs : j.commissionId = 1)
          ~> (commissions[1].status \in {"charged", "failed"})

\* Job j runs for the first time: what the commission was when the job
\* loaded it, it was through another path.
FirstRun(j) == j.attemptsMade = 1

\* C24: a queued charge job that starts executing after its commission has
\* already reached paid or failed through another path makes no gateway
\* call and changes nothing on the commission.  (A job writes the commission
\* only after its gateway call.)
C24_SettledCommissionNotCharged ==
    [][\A j \in ChargeJobs :
          (FirstRun(j) /\ j.commission.status \in {"paid", "failed"}) =>
              ~CallsGateway(j)]_vars

\* The charges the gateway holds for commission k.
ChargesOf(k) == {ch \in ChargeIds : charges[ch].externalReference = k}

\* C25: executing the charge job more than once for the same commission, two
\* workers at the same time included, creates at most one gateway charge for
\* that commission and leaves the commission as a single execution does:
\* charged, with that one charge.
C25_OneChargePerCommission ==
    \A k \in CommissionIds :
        /\ Cardinality(ChargesOf(k)) <= 1
        /\ (/\ commissions[k].status = "charged"
            /\ chargeJobs = EmptyBag /\ chargeRequests = EmptyBag) =>
              commissions[k].asaasChargeId \in ChargesOf(k)

\* The signature of a request verifies against the shared secret.
Verifies(request) ==
    request.signature = Hmac(WebhookSecret, request.payload)

\* The signature of the request under way does not verify, and the request
\* moves on in this step.
UnverifiedRequest ==
    /\ webhookReply.status \in UnderWay
    /\ ~Verifies(webhookReply)
    /\ webhookReply' # webhookReply

C26_Step ==
    \* the request is refused, nothing is stored, queued or changed
    /\ UnverifiedRequest =>
          /\ webhookReply'.status
                \in {"401 Unauthorized", "500 Internal Server Error"}
          /\ UNCHANGED <<webhooks, webhookJobs, commissions>>
          /\ UNCHANGED <<giftCards, transactions, chargeJobs, charges>>
    \* a row is stored, and a job queued for it, only for a request whose
    \* signature has verified
    /\ Len(webhooks') > Len(webhooks) =>
          /\ Verifies(webhookReply)
          /\ webhookReply'.status = "200 OK"
          /\ webhooks'[Len(webhooks')].payload = webhookReply.payload
    \* a job runs for a stored row only, and only a job changes a commission
    /\ \A x \in BagToSet(webhookJobs') : x.webhookId \in DOMAIN webhooks
    /\ commissions' # commissions =>
          \E x \in WebhookJobs : x.pc = "handle" /\ Moves(x)

\* C26: a webhook whose signature does not verify against the shared secret
\* is rejected before any processing: no webhook job is enqueued and no
\* commission field changes.
C26_UnverifiedRejected == [][C26_Step]_vars

\* A request signed with another key was answered 401: no row is stored and
\* no job runs.
C26_Witness ==
    /\ webhookReply.status = "401 Unauthorized"
    /\ webhookReply.signature = Hmac("other", webhookReply.payload)
    /\ webhooks = <<>>
    /\ webhookJobs = EmptyBag

C27_NoSharedCode ==
    \A c, d \in CardIds : giftCards[c].code = giftCards[d].code => c = d

\* Run r of createGiftCard, whose code is the code of a card, ends in this
\* step at its insert.
Collides(r) ==
    /\ r.pc = "create"
    /\ generateUniqueCode(r.id) \in CodesInUse
    /\ creations' = Leave(creations, r)
    /\ creation'.error # DatabaseError

\* A run that collides ends with a ConflictError after it has generated
\* more than one code, and without a card.
C27_Step ==
    \A r \in Creations :
        Collides(r) =>
            /\ creation'.error.code = "E_CONFLICT"
            /\ creation'.attempts > 1
            /\ giftCards' = giftCards

\* C27: no two gift cards ever share a code: createGiftCard regenerates the
\* code when the generated one collides with an existing card's code, and
\* after a bounded number of retries it fails with ConflictError without
\* persisting a card.
C27_UniqueCodes == [](C27_NoSharedCode) /\ [][C27_Step]_vars

\* The gateway has confirmed the payment of charge ch and the confirmation
\* has made commission k paid.
ConfirmedPaid(ch, k) ==
    /\ commissions[k].status = "paid"
    /\ \E w \in WebhookIds :
          /\ webhooks[w].payload.event \in SuccessEvents
          /\ webhooks[w].payload.payment.id = ch
          /\ CommissionOf(webhooks[w].payload) = k

\* C28: if the gateway confirms payment of a charge that the charge job
\* created, the commission ends in paid whichever of the two is processed
\* first, the confirmation webhook or the job's write of status charged: the
\* job's write never replaces paid by charged, and a confirmation processed
\* before that write is not lost.
C28_ConfirmationNotLost ==
    [][\A j \in ChargeJobs :
          (/\ j.pc = "update"
           /\ chargeJobs' = Leave(chargeJobs, j)
           /\ ConfirmedPaid(j.chargeId, j.commissionId)) =>
              /\ commissions'[j.commissionId].status = "paid"
              /\ commissions'[j.commissionId].paidAt
                    = commissions[j.commissionId].paidAt]_vars

\* C29: in every reachable state a commission has a paidAt value if and only
\* if its status is paid.
C29_PaidAtIffPaid ==
    \A k \in CommissionIds :
        commissions[k].paidAt # Null <=> commissions[k].status = "paid"

C30_Step ==
    \* the effect is applied only while processedAt is empty
    /\ \A x \in WebhookJobs :
          Applies(x) => webhooks[x.webhookId].processedAt = Null
    \* processedAt is set by an execution that has applied the effect, and
    \* by nothing else; an execution that throws leaves it empty
    /\ \A w \in WebhookIds :
          webhooks'[w].processedAt # webhooks[w].processedAt =>
              /\ webhooks[w].processedAt = Null
              /\ \E x \in WebhookJobs :
                    /\ x.webhookId = w
                    /\ x.pc = "mark"
                    /\ webhookJobs' = Leave(webhookJobs, x)

\* C30: the webhook-processing job applies a stored webhook's effect only
\* while its processedAt is empty and sets processedAt only after the effect
\* was applied without error: a webhook whose processedAt is set is never
\* applied again, and one whose processing threw keeps processedAt empty and
\* is retried.
C30_AppliedWhileUnprocessed == [][C30_Step]_vars
====
